---- MODULE Spec2Model ----
(***************************************************************************)
(* Model of the persistence layer of excalidraw-app (src-tauri): the three *)
(* relations of db.rs (drawings, snapshots, room_settings) behind the one  *)
(* Mutex<Connection>, and the commands of commands.rs.                     *)
(*                                                                         *)
(* A relation is a set of rows (records).  A command is one action that    *)
(* runs the whole handler; the statements it executes are the operators    *)
(* below, which the concurrent specification runs one at a time.           *)
(***************************************************************************)
EXTENDS Integers, Sequences, FiniteSets, TLC

\* ---------------------------------------------------------------- bounds
\* The clock reads 0..MaxClock (epoch seconds, non-decreasing).
MaxClock == 1
\* uuid::Uuid::new_v4() is modelled as a counter: ids 1..MaxIds are handed out.
MaxIds == 3
\* The specification of the snapshot history: the seconds its clock reads, and the
\* save_snapshot calls it makes.
MaxHistoryClock == 2
MaxSaves == 3
\* The specification of concurrent callers: the ids its calls draw.
MaxThreadIds == 2
\* Drawings saved in a behaviour of the drawing commands.
MaxDrawings == 2
\* The specification of commands given an id: the ids its saves draw.
MaxRows == 2
\* The specification of the autosave slot: the ids its calls draw.
MaxSlotIds == 2
\* The specification of the command handler: the ids its calls draw.
MaxInvokeIds == 2
\* The specifications of retention with an autosave slot: the ids their calls draw.
MaxRetentionIds == 4

\* ------------------------------------------------------------- constants
AUTOSAVE_CREATED_BY == "__autosave__"
AUTOSAVE_DEFAULT_NAME == "Latest autosave snapshot"
AUTOSAVE_DEFAULT_DESCRIPTION == "Automatically saved by Excalidraw"
DEFAULT_MAX_SNAPSHOTS == 10
DEFAULT_AUTO_SAVE_INTERVAL == 60

\* Option<String>::None, and SQL NULL.
None == "<none>"
\* "no id": the unit result, and the NULL a scalar subquery without rows yields.
NoId == 0

\* ---------------------------------------------------------------- inputs
Rooms == {"r1", "r2"}
\* The threads that call commands at the same time.
Threads == {"t1", "t2"}
Ids == 1..MaxIds
\* (name, description, thumbnail) as a caller passes them: all absent or all given.
Metas == {<<None, None, None>>, <<"n1", "d1", "t1">>}
CreatedBys == {None, AUTOSAVE_CREATED_BY}
\* created_by of a caller that does not pass the sentinel.
PlainCreatedBys == {None, "alice"}
Datas == {"x", "y"}
\* (name, data) of a drawing as a caller passes them.
DrawingInputs == {<<"A", "x">>, <<"B", "y">>}
\* (max_snapshots, auto_save_interval) as a caller passes them.
SettingInputs == {<<1, 30>>, <<2, 60>>}
\* The same, with values the commands do not validate.
AnySettingInputs == SettingInputs \cup {<<0, 0>>, <<10, 60>>}

VARIABLES
    drawings,       \* relation drawings
    snapshots,      \* relation snapshots
    room_settings,  \* relation room_settings
    clock,          \* SystemTime::now() in seconds since the epoch
    next_id,        \* the next id Uuid::new_v4() hands out
    last,           \* the last command that returned, and what it returned
    before,         \* the command that returned before the last one, for the
                    \* specifications that relate two successive calls
    saved,          \* per room, the save_snapshot calls that returned an id, in
                    \* order, for the specification that relates a listing to them
    lock,           \* db::DB, the Mutex<Connection>: the thread that holds it
    threads         \* per thread, the command it runs, where it is in it, and
                    \* the locals of the handler

vars == <<drawings, snapshots, room_settings, clock, next_id, last, before, saved,
          lock, threads>>

\* --------------------------------------------------------- room settings

\* SELECT ... FROM room_settings WHERE room_id = ?1
settings_rows(rs, room_id) == {s \in rs : s.room_id = room_id}

default_settings(room_id) ==
    [room_id |-> room_id,
     max_snapshots |-> DEFAULT_MAX_SNAPSHOTS,
     auto_save_interval |-> DEFAULT_AUTO_SAVE_INTERVAL]

\* query_row(...).or_else(|_| default): any error of the read, QueryReturnedNoRows
\* or another (read_fails), yields the default settings.
get_room_settings_internal(rs, room_id, read_fails) ==
    IF read_fails \/ settings_rows(rs, room_id) = {}
    THEN default_settings(room_id)
    ELSE CHOOSE s \in settings_rows(rs, room_id) : TRUE

\* Mutant: INSERT OR IGNORE, which keeps the row a room already has.
upsert_room_settings_ignoring(rs, room_id, max_snapshots, auto_save_interval) ==
    IF settings_rows(rs, room_id) # {}
    THEN rs
    ELSE rs \cup {[room_id |-> room_id,
                   max_snapshots |-> max_snapshots,
                   auto_save_interval |-> auto_save_interval]}

\* INSERT ... ON CONFLICT(room_id) DO UPDATE SET max_snapshots, auto_save_interval
upsert_room_settings(rs, room_id, max_snapshots, auto_save_interval) ==
    {s \in rs : s.room_id # room_id}
        \cup {[room_id |-> room_id,
               max_snapshots |-> max_snapshots,
               auto_save_interval |-> auto_save_interval]}

\* -------------------------------------------------------------- snapshots

room_rows(snaps, room_id) == {s \in snaps : s.room_id = room_id}

\* SELECT COUNT(*) FROM snapshots WHERE room_id = ?1
count_snapshots(snaps, room_id) == Cardinality(room_rows(snaps, room_id))

\* Mutant: ORDER BY created_at DESC in the eviction, which yields the newest row.
newest_ids(snaps, room_id) ==
    IF room_rows(snaps, room_id) = {}
    THEN {NoId}
    ELSE {s.id : s \in {r \in room_rows(snaps, room_id) :
                          \A o \in room_rows(snaps, room_id) :
                              o.created_at <= r.created_at}}

\* SELECT id FROM snapshots WHERE room_id = ?1 ORDER BY created_at ASC LIMIT 1:
\* the ids the subquery may yield; rows that tie on created_at come in any order.
oldest_ids(snaps, room_id) ==
    IF room_rows(snaps, room_id) = {}
    THEN {NoId}
    ELSE {s.id : s \in {r \in room_rows(snaps, room_id) :
                          \A o \in room_rows(snaps, room_id) :
                              r.created_at <= o.created_at}}

\* Mutant: count > settings.max_snapshots.
at_limit_off_by_one(count, max_snapshots) == count > max_snapshots

\* if count >= settings.max_snapshots
at_limit(count, max_snapshots) == count >= max_snapshots

\* DELETE FROM <relation> WHERE id = ?1
delete_where_id(rows, id) == {r \in rows : r.id # id}

\* Mutant: the lookup without its room_id = ?1.
select_autosave_ids_of_any_room(snaps, room_id) ==
    {s.id : s \in {r \in snaps : r.created_by = AUTOSAVE_CREATED_BY}}

\* SELECT id FROM snapshots WHERE room_id = ?1 AND created_by = ?2 LIMIT 1, with
\* ?2 = AUTOSAVE_CREATED_BY: the ids the query may yield (none: no row).
select_autosave_ids(snaps, room_id) ==
    {s.id : s \in {r \in snaps : r.room_id = room_id
                                   /\ r.created_by = AUTOSAVE_CREATED_BY}}

\* A room's autosave rows (created_by is the sentinel) and its other rows.
autosave_rows(snaps, room_id) ==
    {s \in snaps : s.room_id = room_id /\ s.created_by = "__autosave__"}

plain_rows(snaps, room_id) ==
    {s \in snaps : s.room_id = room_id /\ s.created_by # "__autosave__"}

snapshot_row(id, room_id, name, description, thumbnail, created_by, created_at, data) ==
    [id |-> id, room_id |-> room_id, name |-> name, description |-> description,
     thumbnail |-> thumbnail, created_by |-> created_by, created_at |-> created_at,
     data |-> data]

\* ORDER BY created_at DESC: the sequences that list the rows newest first; rows
\* that tie on created_at come in any order.
RECURSIVE by_created_at_desc(_)
by_created_at_desc(rows) ==
    IF rows = {}
    THEN {<<>>}
    ELSE UNION {{<<r>> \o q : q \in by_created_at_desc(rows \ {r})} :
                r \in {x \in rows : \A o \in rows : o.created_at <= x.created_at}}

\* SELECT id, ..., created_at, '' as data FROM snapshots WHERE room_id = ?1
\* ORDER BY created_at DESC: every sequence the query may return.
list_snapshots_results(snaps, room_id) ==
    by_created_at_desc({[s EXCEPT !.data = ""] : s \in room_rows(snaps, room_id)})

\* What a command returned: op, its room or id argument, Ok or Err, the id it
\* returned (NoId when it returns none) and the rows it returned.
returned(op, room, id, ok, out) ==
    [op |-> op, room |-> room, id |-> id, ok |-> ok, out |-> out]

\* Option::unwrap_or_else / unwrap_or_default
unwrap_or(opt, default) == IF opt = None THEN default ELSE opt

\* lib.rs runs db::DB's initialiser before any command: the relations exist and
\* are empty unless the file held rows (the specifications below say which).
no_command == returned("", "", NoId, TRUE, <<>>)

\* ------------------------------------------------- room settings commands
\* `fail` names the statement of the handler that the store fails ("none": none).

\* Mutant: a read that writes the default back when the room has no row.
get_room_settings_persisting(room_id, fail) ==
    /\ last' = returned("get_room_settings", room_id, NoId, TRUE,
                        <<get_room_settings_internal(room_settings, room_id,
                                                     fail = "read")>>)
    /\ room_settings' = room_settings
           \cup {get_room_settings_internal(room_settings, room_id, fail = "read")}
    /\ UNCHANGED <<drawings, snapshots, clock, next_id>>

get_room_settings(room_id, fail) ==
    /\ last' = returned("get_room_settings", room_id, NoId, TRUE,
                        <<get_room_settings_internal(room_settings, room_id,
                                                     fail = "read")>>)
    /\ UNCHANGED <<drawings, snapshots, room_settings, clock, next_id>>

update_room_settings(room_id, max_snapshots, auto_save_interval, fail) ==
    /\ room_settings' =
           IF fail = "upsert"
           THEN room_settings
           ELSE upsert_room_settings(room_settings, room_id, max_snapshots,
                                     auto_save_interval)
    /\ last' = returned("update_room_settings", room_id, NoId, fail # "upsert", <<>>)
    /\ UNCHANGED <<drawings, snapshots, clock, next_id>>

\* ------------------------------------------------------ snapshot commands

save_snapshot(room_id, name, description, thumbnail, created_by, data, fail) ==
    /\ LET timestamp == clock
           id == next_id
           settings == get_room_settings_internal(room_settings, room_id,
                                                  fail = "settings")
           count == count_snapshots(snapshots, room_id)
           evicts == fail # "count" /\ at_limit(count, settings.max_snapshots)
           row == snapshot_row(id, room_id, name, description, thumbnail,
                               created_by, timestamp, data)
       IN  /\ fail = "delete" => evicts
           /\ \E victim \in IF evicts /\ fail # "delete"
                            THEN oldest_ids(snapshots, room_id)
                            ELSE {NoId} :
                LET kept == delete_where_id(snapshots, victim)
                    ok == fail \in {"none", "settings"}
                IN  /\ snapshots' = IF ok THEN kept \cup {row} ELSE kept
                    /\ last' = returned("save_snapshot", room_id,
                                        IF ok THEN id ELSE NoId, ok, <<>>)
    /\ next_id' = next_id + 1
    /\ UNCHANGED <<drawings, room_settings, clock>>

list_snapshots(room_id, fail) ==
    /\ IF fail = "none"
       THEN \E rows \in list_snapshots_results(snapshots, room_id) :
                last' = returned("list_snapshots", room_id, NoId, TRUE, rows)
       ELSE last' = returned("list_snapshots", room_id, NoId, FALSE, <<>>)
    /\ UNCHANGED <<drawings, snapshots, room_settings, clock, next_id>>

\* query_row: Err(QueryReturnedNoRows) when no row matches.
load_snapshot(id, fail) ==
    /\ LET found == {s \in snapshots : s.id = id}
       IN  IF fail = "none" /\ found # {}
           THEN \E s \in found : last' = returned("load_snapshot", "", id, TRUE, <<s>>)
           ELSE last' = returned("load_snapshot", "", id, FALSE, <<>>)
    /\ UNCHANGED <<drawings, snapshots, room_settings, clock, next_id>>

delete_snapshot(id, fail) ==
    /\ snapshots' = IF fail = "none" THEN delete_where_id(snapshots, id) ELSE snapshots
    /\ last' = returned("delete_snapshot", "", id, fail = "none", <<>>)
    /\ UNCHANGED <<drawings, room_settings, clock, next_id>>

\* Mutant: the UPDATE without its WHERE id = ?3.
set_metadata_of_every_row(snaps, id, name, description) ==
    {[s EXCEPT !.name = name, !.description = description] : s \in snaps}

\* UPDATE snapshots SET name = ?1, description = ?2 WHERE id = ?3
set_metadata(snaps, id, name, description) ==
    {IF s.id = id THEN [s EXCEPT !.name = name, !.description = description] ELSE s :
        s \in snaps}

update_snapshot_metadata(id, name, description, fail) ==
    /\ snapshots' = IF fail = "none"
                    THEN set_metadata(snapshots, id, name, description)
                    ELSE snapshots
    /\ last' = returned("update_snapshot_metadata", "", id, fail = "none", <<>>)
    /\ UNCHANGED <<drawings, room_settings, clock, next_id>>

\* Mutant: an UPDATE without created_at = ?5.
overwrite_autosave_keeping_created_at(snaps, id, name, description, thumbnail, data, created_at) ==
    {IF s.id = id
     THEN [s EXCEPT !.name = name, !.description = description,
                    !.thumbnail = thumbnail, !.data = data]
     ELSE s : s \in snaps}

\* UPDATE snapshots SET name, description, thumbnail, data, created_at WHERE id = ?6
overwrite_autosave(snaps, id, name, description, thumbnail, data, created_at) ==
    {IF s.id = id
     THEN [s EXCEPT !.name = name, !.description = description,
                    !.thumbnail = thumbnail, !.data = data,
                    !.created_at = created_at]
     ELSE s : s \in snaps}

save_autosave_snapshot(room_id, name, description, thumbnail, data, fail) ==
    LET timestamp == clock
        final_name == unwrap_or(name, AUTOSAVE_DEFAULT_NAME)
        final_description == unwrap_or(description, AUTOSAVE_DEFAULT_DESCRIPTION)
        final_thumbnail == unwrap_or(thumbnail, "")
        existing == select_autosave_ids(snapshots, room_id)
    IN  IF fail = "lookup"
        THEN /\ last' = returned("save_autosave_snapshot", room_id, NoId, FALSE, <<>>)
             /\ UNCHANGED <<drawings, snapshots, room_settings, clock, next_id>>
        ELSE IF existing # {}
        THEN /\ fail \in {"none", "update"}
             /\ \E existing_id \in existing :
                  /\ snapshots' =
                         IF fail = "update"
                         THEN snapshots
                         ELSE overwrite_autosave(snapshots, existing_id, final_name,
                                                 final_description, final_thumbnail,
                                                 data, timestamp)
                  /\ last' = returned("save_autosave_snapshot", room_id,
                                      IF fail = "update" THEN NoId ELSE existing_id,
                                      fail # "update", <<>>)
             /\ UNCHANGED <<drawings, room_settings, clock, next_id>>
        ELSE /\ fail \in {"none", "insert"}
             /\ snapshots' =
                    IF fail = "insert"
                    THEN snapshots
                    ELSE snapshots \cup
                             {snapshot_row(next_id, room_id, final_name,
                                           final_description, final_thumbnail,
                                           AUTOSAVE_CREATED_BY, timestamp, data)}
             /\ last' = returned("save_autosave_snapshot", room_id,
                                 IF fail = "insert" THEN NoId ELSE next_id,
                                 fail # "insert", <<>>)
             /\ next_id' = next_id + 1
             /\ UNCHANGED <<drawings, room_settings, clock>>

\* ------------------------------------------------------- drawing commands

\* SELECT id, name, data, created_at, updated_at FROM drawings WHERE id = ?1
select_drawing(rows, id) == {r \in rows : r.id = id}

\* Mutant: name and data bound to each other's parameter.
drawing_row_swapped(id, name, data, timestamp) ==
    [id |-> id, name |-> data, data |-> name, created_at |-> timestamp,
     updated_at |-> timestamp]

\* INSERT INTO drawings (id, name, data, created_at, updated_at)
\*     VALUES (?1, ?2, ?3, timestamp, timestamp)
drawing_row(id, name, data, timestamp) ==
    [id |-> id, name |-> name, data |-> data, created_at |-> timestamp,
     updated_at |-> timestamp]

\* Mutant: an UPDATE that also sets created_at = ?3.
set_drawing_and_created_at(rows, id, name, data, timestamp) ==
    {IF r.id = id
     THEN [r EXCEPT !.name = name, !.data = data, !.created_at = timestamp,
                    !.updated_at = timestamp]
     ELSE r : r \in rows}

\* Mutant: INSERT OR REPLACE, which adds the row when no row has the id.
set_drawing_or_insert(rows, id, name, data, timestamp) ==
    IF {r \in rows : r.id = id} = {}
    THEN rows \cup {[id |-> id, name |-> name, data |-> data,
                     created_at |-> timestamp, updated_at |-> timestamp]}
    ELSE {IF r.id = id
          THEN [r EXCEPT !.name = name, !.data = data, !.updated_at = timestamp]
          ELSE r : r \in rows}

\* UPDATE drawings SET name = ?1, data = ?2, updated_at = ?3 WHERE id = ?4
set_drawing(rows, id, name, data, timestamp) ==
    {IF r.id = id
     THEN [r EXCEPT !.name = name, !.data = data, !.updated_at = timestamp]
     ELSE r : r \in rows}

\* ORDER BY updated_at DESC: rows that tie on updated_at come in any order.
RECURSIVE by_updated_at_desc(_)
by_updated_at_desc(rows) ==
    IF rows = {}
    THEN {<<>>}
    ELSE UNION {{<<r>> \o q : q \in by_updated_at_desc(rows \ {r})} :
                r \in {x \in rows : \A o \in rows : o.updated_at <= x.updated_at}}

save_drawing(name, data, fail) ==
    /\ LET timestamp == clock
           id == next_id
       IN  /\ drawings' = IF fail = "none"
                          THEN drawings \cup {drawing_row(id, name, data, timestamp)}
                          ELSE drawings
           /\ last' = returned("save_drawing", "", IF fail = "none" THEN id ELSE NoId,
                               fail = "none", <<>>)
    /\ next_id' = next_id + 1
    /\ UNCHANGED <<snapshots, room_settings, clock>>

update_drawing(id, name, data, fail) ==
    /\ LET timestamp == clock
       IN  drawings' = IF fail = "none"
                       THEN set_drawing(drawings, id, name, data, timestamp)
                       ELSE drawings
    /\ last' = returned("update_drawing", "", id, fail = "none", <<>>)
    /\ UNCHANGED <<snapshots, room_settings, clock, next_id>>

\* query_row: Err(QueryReturnedNoRows) when no row matches.
load_drawing(id, fail) ==
    /\ IF fail = "none" /\ select_drawing(drawings, id) # {}
       THEN \E r \in select_drawing(drawings, id) :
                last' = returned("load_drawing", "", id, TRUE, <<r>>)
       ELSE last' = returned("load_drawing", "", id, FALSE, <<>>)
    /\ UNCHANGED <<drawings, snapshots, room_settings, clock, next_id>>

list_drawings(fail) ==
    /\ IF fail = "none"
       THEN \E rows \in by_updated_at_desc(drawings) :
                last' = returned("list_drawings", "", NoId, TRUE, rows)
       ELSE last' = returned("list_drawings", "", NoId, FALSE, <<>>)
    /\ UNCHANGED <<drawings, snapshots, room_settings, clock, next_id>>

delete_drawing(id, fail) ==
    /\ drawings' = IF fail = "none" THEN delete_where_id(drawings, id) ELSE drawings
    /\ last' = returned("delete_drawing", "", id, fail = "none", <<>>)
    /\ UNCHANGED <<snapshots, room_settings, clock, next_id>>

\* SystemTime::now(): the wall clock moves on between commands.
Tick ==
    /\ clock' = clock + 1
    /\ UNCHANGED <<drawings, snapshots, room_settings, next_id, last>>

\* ------------------------------------------------------- command handler

\* tauri::generate_handler![...] in run(): the commands a caller can invoke.
generate_handler ==
    {"save_drawing", "update_drawing", "load_drawing", "list_drawings",
     "delete_drawing", "save_snapshot", "list_snapshots", "load_snapshot",
     "delete_snapshot", "update_snapshot_metadata", "get_room_settings",
     "update_room_settings"}

\* The functions of commands.rs that carry #[tauri::command].
commands ==
    {"save_drawing", "update_drawing", "load_drawing", "list_drawings",
     "delete_drawing", "save_snapshot", "list_snapshots", "load_snapshot",
     "delete_snapshot", "update_snapshot_metadata", "save_autosave_snapshot",
     "get_room_settings", "update_room_settings"}

\* What the caller gets for a name the handler does not know.
not_found == <<[error |-> "command not found"]>>

\* The function cmd of commands.rs, called with a room and an id.
run_command(cmd, room_id, id) ==
    CASE cmd = "save_drawing" -> save_drawing("A", "x", "none")
      [] cmd = "update_drawing" -> update_drawing(id, "B", "y", "none")
      [] cmd = "load_drawing" -> load_drawing(id, "none")
      [] cmd = "list_drawings" -> list_drawings("none")
      [] cmd = "delete_drawing" -> delete_drawing(id, "none")
      [] cmd = "save_snapshot" -> save_snapshot(room_id, None, None, None, None, "x", "none")
      [] cmd = "list_snapshots" -> list_snapshots(room_id, "none")
      [] cmd = "load_snapshot" -> load_snapshot(id, "none")
      [] cmd = "delete_snapshot" -> delete_snapshot(id, "none")
      [] cmd = "update_snapshot_metadata" -> update_snapshot_metadata(id, "n1", "d1", "none")
      [] cmd = "save_autosave_snapshot" ->
             save_autosave_snapshot(room_id, None, None, None, "x", "none")
      [] cmd = "get_room_settings" -> get_room_settings(room_id, "none")
      [] cmd = "update_room_settings" -> update_room_settings(room_id, 1, 30, "none")

\* invoke_handler: a call by name runs the command registered under the name, and
\* is rejected when none is.
invoke(cmd, room_id, id) ==
    IF cmd \in generate_handler
    THEN run_command(cmd, room_id, id)
    ELSE /\ last' = returned(cmd, "", NoId, FALSE, not_found)
         /\ UNCHANGED <<drawings, snapshots, room_settings, clock, next_id>>

\* ------------------------------------------------------ concurrent callers
\* A thread runs a handler one step at a time: what it does before DB.lock(), the
\* lock, each statement on the connection, and the return that drops the guard.

idle == [pc |-> "idle", op |-> "", room |-> "", arg |-> <<>>, timestamp |-> 0,
         id |-> NoId, max_snapshots |-> 0, count |-> 0]

\* The statement a handler executes first once it holds the connection.
first_statement(op) ==
    CASE op = "save_snapshot" -> "settings"
      [] op = "save_autosave_snapshot" -> "now"
      [] op = "delete_snapshot" -> "delete"
      [] op = "update_room_settings" -> "upsert"

\* save_snapshot: SystemTime::now() and Uuid::new_v4() come before DB.lock().
call_save_snapshot(t, room_id) ==
    /\ threads[t].pc = "idle"
    /\ threads' = [threads EXCEPT ![t] =
                      [idle EXCEPT !.pc = "lock", !.op = "save_snapshot",
                                   !.room = room_id, !.timestamp = clock,
                                   !.id = next_id]]
    /\ next_id' = next_id + 1
    /\ UNCHANGED <<drawings, snapshots, room_settings, clock, lock>>

\* The commands whose first line is DB.lock().
call_command(t, op, room_id, arg) ==
    /\ threads[t].pc = "idle"
    /\ threads' = [threads EXCEPT ![t] =
                      [idle EXCEPT !.pc = "lock", !.op = op, !.room = room_id,
                                   !.arg = arg]]
    /\ UNCHANGED <<drawings, snapshots, room_settings, clock, next_id, lock>>

\* Mutant: a handler that uses the connection without waiting for the mutex.
lock_db_without_waiting(t) ==
    /\ threads[t].pc = "lock"
    /\ lock' = t
    /\ threads' = [threads EXCEPT ![t].pc = first_statement(threads[t].op)]
    /\ UNCHANGED <<drawings, snapshots, room_settings, clock, next_id>>

\* DB.lock(): blocks until the mutex is free.
lock_db(t) ==
    /\ threads[t].pc = "lock"
    /\ lock = "free"
    /\ lock' = t
    /\ threads' = [threads EXCEPT ![t].pc = first_statement(threads[t].op)]
    /\ UNCHANGED <<drawings, snapshots, room_settings, clock, next_id>>

\* save_snapshot: let settings = get_room_settings_internal(&conn, &room_id)?
read_settings(t) ==
    /\ threads[t].pc = "settings"
    /\ threads' = [threads EXCEPT
                      ![t].pc = "count",
                      ![t].max_snapshots =
                          get_room_settings_internal(room_settings, threads[t].room,
                                                     FALSE).max_snapshots]
    /\ UNCHANGED <<drawings, snapshots, room_settings, clock, next_id, lock>>

\* save_snapshot: SELECT COUNT(*), and the test that follows it
count_rows(t) ==
    /\ threads[t].pc = "count"
    /\ LET count == count_snapshots(snapshots, threads[t].room)
       IN  threads' = [threads EXCEPT
                          ![t].count = count,
                          ![t].pc = IF at_limit(count, threads[t].max_snapshots)
                                    THEN "evict"
                                    ELSE "insert"]
    /\ UNCHANGED <<drawings, snapshots, room_settings, clock, next_id, lock>>

\* save_snapshot: DELETE FROM snapshots WHERE id = (SELECT ... LIMIT 1)
evict_oldest(t) ==
    /\ threads[t].pc = "evict"
    /\ \E victim \in oldest_ids(snapshots, threads[t].room) :
           snapshots' = delete_where_id(snapshots, victim)
    /\ threads' = [threads EXCEPT ![t].pc = "insert"]
    /\ UNCHANGED <<drawings, room_settings, clock, next_id, lock>>

\* save_snapshot: INSERT INTO snapshots
insert_snapshot(t) ==
    /\ threads[t].pc = "insert"
    /\ snapshots' = snapshots \cup
           {snapshot_row(threads[t].id, threads[t].room, None, None, None, None,
                         threads[t].timestamp, "x")}
    /\ threads' = [threads EXCEPT ![t].pc = "return"]
    /\ UNCHANGED <<drawings, room_settings, clock, next_id, lock>>

\* save_autosave_snapshot: SystemTime::now() comes after DB.lock().
read_clock(t) ==
    /\ threads[t].pc = "now"
    /\ threads' = [threads EXCEPT ![t].pc = "lookup", ![t].timestamp = clock]
    /\ UNCHANGED <<drawings, snapshots, room_settings, clock, next_id, lock>>

\* save_autosave_snapshot: SELECT id ... LIMIT 1, then the UPDATE of the row found,
\* or Uuid::new_v4() and the INSERT.
lookup_autosave(t) ==
    /\ threads[t].pc = "lookup"
    /\ IF select_autosave_ids(snapshots, threads[t].room) # {}
       THEN /\ \E existing_id \in select_autosave_ids(snapshots, threads[t].room) :
                 threads' = [threads EXCEPT ![t].pc = "update_autosave",
                                            ![t].id = existing_id]
            /\ UNCHANGED next_id
       ELSE /\ threads' = [threads EXCEPT ![t].pc = "insert_autosave",
                                          ![t].id = next_id]
            /\ next_id' = next_id + 1
    /\ UNCHANGED <<drawings, snapshots, room_settings, clock, lock>>

write_autosave(t) ==
    /\ threads[t].pc \in {"update_autosave", "insert_autosave"}
    /\ snapshots' =
           IF threads[t].pc = "update_autosave"
           THEN overwrite_autosave(snapshots, threads[t].id, AUTOSAVE_DEFAULT_NAME,
                                   AUTOSAVE_DEFAULT_DESCRIPTION, "", "x",
                                   threads[t].timestamp)
           ELSE snapshots \cup
                    {snapshot_row(threads[t].id, threads[t].room,
                                  AUTOSAVE_DEFAULT_NAME, AUTOSAVE_DEFAULT_DESCRIPTION,
                                  "", AUTOSAVE_CREATED_BY, threads[t].timestamp, "x")}
    /\ threads' = [threads EXCEPT ![t].pc = "return"]
    /\ UNCHANGED <<drawings, room_settings, clock, next_id, lock>>

\* delete_snapshot: DELETE FROM snapshots WHERE id = ?1
delete_row(t) ==
    /\ threads[t].pc = "delete"
    /\ snapshots' = delete_where_id(snapshots, threads[t].arg[1])
    /\ threads' = [threads EXCEPT ![t].pc = "return"]
    /\ UNCHANGED <<drawings, room_settings, clock, next_id, lock>>

\* update_room_settings: INSERT ... ON CONFLICT DO UPDATE
upsert_row(t) ==
    /\ threads[t].pc = "upsert"
    /\ room_settings' = upsert_room_settings(room_settings, threads[t].room,
                                             threads[t].arg[1], threads[t].arg[2])
    /\ threads' = [threads EXCEPT ![t].pc = "return"]
    /\ UNCHANGED <<drawings, snapshots, clock, next_id, lock>>

\* The handler returns: the MutexGuard goes out of scope.
return_unlock(t) ==
    /\ threads[t].pc = "return"
    /\ lock' = "free"
    /\ threads' = [threads EXCEPT ![t] = idle]
    /\ UNCHANGED <<drawings, snapshots, room_settings, clock, next_id>>

\* save_autosave_snapshot: SystemTime::now().duration_since(UNIX_EPOCH).unwrap()
\* panics when the system clock reads a time before the epoch, and the thread
\* holds the MutexGuard then.  Built with panic = "unwind" the guard is dropped
\* while the thread unwinds, which marks the std::sync::Mutex poisoned; built with
\* panic = "abort" the process ends.
panic_in_read_clock(t) ==
    /\ threads[t].pc = "now"
    /\ lock = t
    /\ \/ lock' = "poisoned" /\ threads' = [threads EXCEPT ![t] = idle]
       \/ lock' = "aborted" /\ threads' = threads
    /\ UNCHANGED <<drawings, snapshots, room_settings, clock, next_id>>

\* DB.lock().map_err(|e| e.to_string())? on a poisoned mutex: lock() returns
\* Err(PoisonError), the handler returns the message and never uses the connection.
lock_poisoned(t) ==
    /\ threads[t].pc = "lock"
    /\ lock = "poisoned"
    /\ threads' = [threads EXCEPT ![t] = idle]
    /\ UNCHANGED <<drawings, snapshots, room_settings, clock, next_id, lock>>

\* ---------------------------------------------------------- specifications

Init ==
    /\ drawings = {}
    /\ snapshots = {}
    /\ room_settings = {}
    /\ clock = 0
    /\ next_id = 1
    /\ last = no_command
    /\ before = no_command
    /\ saved = [r \in Rooms |-> <<>>]
    /\ lock = "free"
    /\ threads = [t \in Threads |-> idle]

\* Uuid::new_v4() and the clock never run out: a specification caps them.
ids_left == next_id <= MaxIds
time_left == clock < MaxClock

\* The commands that write the snapshot store and the room settings, one call
\* after another, on a store whose statements succeed.
Next ==
    \/ \E r \in Rooms, c \in CreatedBys :
           /\ ids_left
           /\ save_snapshot(r, None, None, None, c, "x", "none")
           /\ UNCHANGED <<before, saved, lock, threads>>
    \/ \E r \in Rooms :
           /\ ids_left
           /\ save_autosave_snapshot(r, None, None, None, "x", "none")
           /\ UNCHANGED <<before, saved, lock, threads>>
    \/ \E i \in Ids : delete_snapshot(i, "none") /\ UNCHANGED <<before, saved, lock, threads>>
    \/ \E r \in Rooms, v \in SettingInputs :
           update_room_settings(r, v[1], v[2], "none") /\ UNCHANGED <<before, saved, lock, threads>>
    \/ time_left /\ Tick /\ UNCHANGED <<before, saved, lock, threads>>

Spec == Init /\ [][Next]_vars

\* Two successive calls: the autosave upsert among the commands that add and
\* remove snapshot rows (every room keeps the default settings).
NextAutosave ==
    \/ \E r \in Rooms, d \in Datas :
           /\ ids_left
           /\ save_autosave_snapshot(r, None, None, None, d, "none")
           /\ before' = last
           /\ UNCHANGED <<saved, lock, threads>>
    \/ \E r \in Rooms, c \in CreatedBys :
           /\ ids_left
           /\ save_snapshot(r, None, None, None, c, "x", "none")
           /\ before' = last
           /\ UNCHANGED <<saved, lock, threads>>
    \/ \E i \in Ids :
           delete_snapshot(i, "none") /\ before' = last /\ UNCHANGED <<saved, lock, threads>>
    \/ time_left /\ Tick /\ UNCHANGED <<before, saved, lock, threads>>

SpecAutosave == Init /\ [][NextAutosave]_vars

\* The snapshot history of rooms whose settings stay as they are: save_snapshot
\* calls that do not pass the autosave sentinel, and listings, from an empty
\* snapshot store.  Every store statement succeeds.
SettingsTables ==
    {t \in SUBSET {[room_id |-> r, max_snapshots |-> v[1], auto_save_interval |-> v[2]] :
                      r \in Rooms, v \in SettingInputs} :
        \A r \in Rooms : Cardinality(settings_rows(t, r)) <= 1}

InitHistory ==
    /\ drawings = {}
    /\ snapshots = {}
    /\ room_settings \in SettingsTables
    /\ clock = 0
    /\ next_id = 1
    /\ last = no_command
    /\ before = no_command
    /\ saved = [r \in Rooms |-> <<>>]
    /\ lock = "free"
    /\ threads = [t \in Threads |-> idle]

NextHistory ==
    \/ \E r \in Rooms, c \in PlainCreatedBys :
           /\ next_id <= MaxSaves
           /\ save_snapshot(r, None, None, None, c, "x", "none")
           /\ saved' = [saved EXCEPT ![r] = Append(@, [id |-> last'.id,
                                                       created_at |-> clock])]
           /\ UNCHANGED <<before, lock, threads>>
    \/ \E r \in Rooms : list_snapshots(r, "none") /\ UNCHANGED <<before, saved, lock, threads>>
    \/ clock < MaxHistoryClock /\ Tick /\ UNCHANGED <<before, saved, lock, threads>>

SpecHistory == InitHistory /\ [][NextHistory]_vars

\* The room settings: reads and upserts, and save_snapshot, which reads them.
NextSettings ==
    \/ \E r \in Rooms : get_room_settings(r, "none") /\ before' = last /\ UNCHANGED <<saved, lock, threads>>
    \/ \E r \in Rooms, v \in AnySettingInputs :
           /\ update_room_settings(r, v[1], v[2], "none")
           /\ before' = last
           /\ UNCHANGED <<saved, lock, threads>>
    \/ \E r \in Rooms :
           /\ ids_left
           /\ save_snapshot(r, None, None, None, None, "x", "none")
           /\ before' = last
           /\ UNCHANGED <<saved, lock, threads>>

SpecSettings == Init /\ [][NextSettings]_vars

\* The same commands on a store that may fail a statement: `fail` names the
\* statement of the handler that returns an error.
SaveSnapshotFaults == {"none", "settings", "count", "delete", "insert"}
AutosaveFaults == {"none", "lookup", "update", "insert"}

NextFaulty ==
    \/ \E r \in Rooms, f \in SaveSnapshotFaults :
           /\ ids_left
           /\ save_snapshot(r, None, None, None, None, "x", f)
           /\ UNCHANGED <<before, saved, lock, threads>>
    \/ \E r \in Rooms, f \in AutosaveFaults :
           /\ ids_left
           /\ save_autosave_snapshot(r, None, None, None, "x", f)
           /\ UNCHANGED <<before, saved, lock, threads>>
    \/ \E r \in Rooms, f \in {"none", "read"} :
           get_room_settings(r, f) /\ UNCHANGED <<before, saved, lock, threads>>
    \/ \E r \in Rooms, v \in SettingInputs, f \in {"none", "upsert"} :
           update_room_settings(r, v[1], v[2], f) /\ UNCHANGED <<before, saved, lock, threads>>
    \/ time_left /\ Tick /\ UNCHANGED <<before, saved, lock, threads>>

SpecFaulty == Init /\ [][NextFaulty]_vars

\* The drawing commands, one call after another.
NextDrawings ==
    \/ \E v \in DrawingInputs :
           /\ next_id <= MaxDrawings
           /\ save_drawing(v[1], v[2], "none")
           /\ before' = last
           /\ UNCHANGED <<saved, lock, threads>>
    \/ \E i \in 1..MaxDrawings, v \in DrawingInputs :
           update_drawing(i, v[1], v[2], "none") /\ before' = last /\ UNCHANGED <<saved, lock, threads>>
    \/ \E i \in 1..MaxDrawings : load_drawing(i, "none") /\ before' = last /\ UNCHANGED <<saved, lock, threads>>
    \/ list_drawings("none") /\ before' = last /\ UNCHANGED <<saved, lock, threads>>
    \/ \E i \in 1..MaxDrawings : delete_drawing(i, "none") /\ before' = last /\ UNCHANGED <<saved, lock, threads>>
    \/ time_left /\ Tick /\ UNCHANGED <<before, saved, lock, threads>>

SpecDrawings == Init /\ [][NextDrawings]_vars

\* Threads that call the commands that write the snapshot store and the room
\* settings at the same time, all within one second of the clock.
NextThreads ==
    \/ \E t \in Threads, r \in Rooms :
           /\ next_id <= MaxThreadIds
           /\ call_save_snapshot(t, r)
           /\ UNCHANGED <<last, before, saved>>
    \/ \E t \in Threads, r \in Rooms :
           /\ next_id <= MaxThreadIds
           /\ call_command(t, "save_autosave_snapshot", r, <<>>)
           /\ UNCHANGED <<last, before, saved>>
    \/ \E t \in Threads, i \in 1..MaxThreadIds :
           call_command(t, "delete_snapshot", "", <<i>>) /\ UNCHANGED <<last, before, saved>>
    \/ \E t \in Threads, r \in Rooms :
           /\ call_command(t, "update_room_settings", r, <<1, 30>>)
           /\ UNCHANGED <<last, before, saved>>
    \/ \E t \in Threads : lock_db(t) /\ UNCHANGED <<last, before, saved>>
    \/ \E t \in Threads : read_settings(t) /\ UNCHANGED <<last, before, saved>>
    \/ \E t \in Threads : count_rows(t) /\ UNCHANGED <<last, before, saved>>
    \/ \E t \in Threads : evict_oldest(t) /\ UNCHANGED <<last, before, saved>>
    \/ \E t \in Threads : insert_snapshot(t) /\ UNCHANGED <<last, before, saved>>
    \/ \E t \in Threads : read_clock(t) /\ UNCHANGED <<last, before, saved>>
    \/ \E t \in Threads : lookup_autosave(t) /\ UNCHANGED <<last, before, saved>>
    \/ \E t \in Threads : write_autosave(t) /\ UNCHANGED <<last, before, saved>>
    \/ \E t \in Threads : delete_row(t) /\ UNCHANGED <<last, before, saved>>
    \/ \E t \in Threads : upsert_row(t) /\ UNCHANGED <<last, before, saved>>
    \/ \E t \in Threads : return_unlock(t) /\ UNCHANGED <<last, before, saved>>

SpecThreads == Init /\ [][NextThreads]_vars

\* The commands that are given an id, among the saves that make the rows: ids
\* that match a drawing, a snapshot, or no row.
NextRows ==
    \/ /\ next_id <= MaxRows
       /\ save_drawing("A", "x", "none")
       /\ UNCHANGED <<before, saved, lock, threads>>
    \/ \E r \in Rooms :
           /\ next_id <= MaxRows
           /\ save_snapshot(r, "n0", None, "t0", None, "x", "none")
           /\ UNCHANGED <<before, saved, lock, threads>>
    \/ update_room_settings("r1", 1, 30, "none") /\ UNCHANGED <<before, saved, lock, threads>>
    \/ \E i \in 1..MaxRows : load_drawing(i, "none") /\ UNCHANGED <<before, saved, lock, threads>>
    \/ \E i \in 1..MaxRows :
           update_drawing(i, "B", "y", "none") /\ UNCHANGED <<before, saved, lock, threads>>
    \/ \E i \in 1..MaxRows : delete_drawing(i, "none") /\ UNCHANGED <<before, saved, lock, threads>>
    \/ \E i \in 1..MaxRows : load_snapshot(i, "none") /\ UNCHANGED <<before, saved, lock, threads>>
    \/ \E i \in 1..MaxRows : delete_snapshot(i, "none") /\ UNCHANGED <<before, saved, lock, threads>>
    \/ \E i \in 1..MaxRows :
           /\ update_snapshot_metadata(i, "n1", "d1", "none")
           /\ UNCHANGED <<before, saved, lock, threads>>
    \/ time_left /\ Tick /\ UNCHANGED <<before, saved, lock, threads>>

SpecRows == Init /\ [][NextRows]_vars

\* The autosave slot: save_autosave_snapshot with its optional arguments given or
\* absent, among save_snapshot calls that may pass the sentinel.
NextSlot ==
    \/ \E r \in Rooms, m \in Metas, d \in Datas :
           /\ select_autosave_ids(snapshots, r) = {} => next_id <= MaxSlotIds
           /\ save_autosave_snapshot(r, m[1], m[2], m[3], d, "none")
           /\ UNCHANGED <<before, saved, lock, threads>>
    \/ \E r \in Rooms, c \in CreatedBys :
           /\ next_id <= MaxSlotIds
           /\ save_snapshot(r, None, None, None, c, "x", "none")
           /\ UNCHANGED <<before, saved, lock, threads>>
    \/ time_left /\ Tick /\ UNCHANGED <<before, saved, lock, threads>>

SpecSlot == Init /\ [][NextSlot]_vars

\* A caller that invokes commands by name through the handler: the names of
\* commands.rs, and a name that is none of them.
NextInvoke ==
    \E cmd \in commands \cup {"export_drawing"}, r \in Rooms, i \in 1..MaxInvokeIds :
        /\ cmd \in {"save_drawing", "save_snapshot", "save_autosave_snapshot"}
               => next_id <= MaxInvokeIds
        /\ invoke(cmd, r, i)
        /\ UNCHANGED <<before, saved, lock, threads>>

SpecInvoke == Init /\ [][NextInvoke]_vars

\* Retention with an autosave slot: ordinary saves, autosaves and deletions in any
\* order, from an empty snapshot store with the settings fixed.
NextRetention ==
    \/ \E r \in Rooms :
           /\ next_id <= MaxRetentionIds
           /\ save_snapshot(r, None, None, None, None, "x", "none")
           /\ UNCHANGED <<before, saved, lock, threads>>
    \/ \E r \in Rooms :
           /\ select_autosave_ids(snapshots, r) = {} => next_id <= MaxRetentionIds
           /\ save_autosave_snapshot(r, None, None, None, "x", "none")
           /\ UNCHANGED <<before, saved, lock, threads>>
    \/ \E i \in 1..MaxRetentionIds :
           delete_snapshot(i, "none") /\ UNCHANGED <<before, saved, lock, threads>>
    \/ time_left /\ Tick /\ UNCHANGED <<before, saved, lock, threads>>

SpecRetention == InitHistory /\ [][NextRetention]_vars

\* The same without deletions.
NextStorage ==
    \/ \E r \in Rooms :
           /\ next_id <= MaxRetentionIds
           /\ save_snapshot(r, None, None, None, None, "x", "none")
           /\ UNCHANGED <<before, saved, lock, threads>>
    \/ \E r \in Rooms :
           /\ select_autosave_ids(snapshots, r) = {} => next_id <= MaxRetentionIds
           /\ save_autosave_snapshot(r, None, None, None, "x", "none")
           /\ UNCHANGED <<before, saved, lock, threads>>
    \/ time_left /\ Tick /\ UNCHANGED <<before, saved, lock, threads>>

SpecStorage == InitHistory /\ [][NextStorage]_vars

\* Concurrent callers of save_autosave_snapshot and update_room_settings, with the
\* panic save_autosave_snapshot can raise; `last` is what the last call that
\* returned gave its caller.  A process that aborted takes no step.
running == lock # "aborted"

panics_call(t) ==
    /\ running
    /\ \E r \in Rooms :
          \/ call_command(t, "save_autosave_snapshot", r, <<>>)
          \/ call_command(t, "update_room_settings", r, <<1, 30>>)
    /\ UNCHANGED <<last, before, saved>>

panics_lock(t) == running /\ lock_db(t) /\ UNCHANGED <<last, before, saved>>

panics_refused(t) ==
    /\ running
    /\ lock_poisoned(t)
    /\ last' = returned(threads[t].op, threads[t].room, NoId, FALSE, <<>>)
    /\ UNCHANGED <<before, saved>>

panics_statement(t) ==
    /\ running
    /\ \/ read_clock(t)
       \/ lookup_autosave(t)
       \/ write_autosave(t)
       \/ upsert_row(t)
    /\ UNCHANGED <<last, before, saved>>

panics_return(t) ==
    /\ running
    /\ return_unlock(t)
    /\ last' = returned(threads[t].op, threads[t].room, threads[t].id, TRUE, <<>>)
    /\ UNCHANGED <<before, saved>>

panics_panic(t) == running /\ panic_in_read_clock(t) /\ UNCHANGED <<last, before, saved>>

NextPanics ==
    \/ \E t \in Threads : panics_call(t)
    \/ \E t \in Threads : panics_lock(t)
    \/ \E t \in Threads : panics_refused(t)
    \/ \E t \in Threads : panics_statement(t)
    \/ \E t \in Threads : panics_return(t)
    \/ \E t \in Threads : panics_panic(t)

\* Fair scheduling: a thread that can execute its next statement or return does so,
\* and a thread that waits for the mutex gets it if it is free again and again.
SpecPanics ==
    /\ Init
    /\ [][NextPanics]_vars
    /\ \A t \in Threads :
          /\ WF_vars(panics_statement(t))
          /\ WF_vars(panics_return(t))
          /\ WF_vars(panics_refused(t))
          /\ SF_vars(panics_lock(t))

\* ------------------------------------------------------------------ steps
\* A step in which save_snapshot(room_id, ...) ran: every call draws an id.
ran_save_snapshot(room_id) ==
    /\ next_id' = next_id + 1
    /\ last'.op = "save_snapshot"
    /\ last'.room = room_id

\* ----------------------------------------------------------------- claims

\* C2: when save_snapshot(R, ...) evicts, the single row it deletes is a row of R
\* that is not R's autosave row and has the minimum created_at among R's
\* non-autosave rows; it deletes no row of another room, and an autosave row of R
\* that existed before the call is still present after it.
C2_EvictionSparesAutosave ==
    [][\A r \in Rooms :
         ran_save_snapshot(r) =>
             /\ Cardinality(snapshots \ snapshots') <= 1
             /\ \A s \in snapshots \ snapshots' :
                    /\ s.room_id = r
                    /\ s.created_by # AUTOSAVE_CREATED_BY
                    /\ \A o \in plain_rows(snapshots, r) : s.created_at <= o.created_at
             /\ autosave_rows(snapshots, r) \subseteq snapshots']_vars

\* C3: in every reachable state each room has at most one snapshot row whose
\* created_by is the autosave sentinel.
C3_OneAutosaveRowPerRoom ==
    \A r \in Rooms : Cardinality(autosave_rows(snapshots, r)) <= 1

\* C4: from a state with at most one autosave row for R, two successive
\* save_autosave_snapshot(R, ...) calls return the same id, and afterwards R has
\* exactly one autosave row, which has that id and the second call's data.  Stated
\* on each call: a call that finds at most one autosave row leaves exactly one and
\* returns its id; and when the call before it was such a call for R as well, it
\* returns the id that call returned and leaves the row with its own data.
C4_AutosaveTwiceSameId ==
    [][\A r \in Rooms, d \in Datas :
         (/\ save_autosave_snapshot(r, None, None, None, d, "none")
          /\ Cardinality(autosave_rows(snapshots, r)) <= 1)
         => /\ last'.ok
            /\ \E s \in snapshots' :
                  /\ autosave_rows(snapshots', r) = {s}
                  /\ s.id = last'.id
                  /\ s.data = d
            /\ (last.op = "save_autosave_snapshot" /\ last.room = r /\ last.ok)
                   => last'.id = last.id]_vars

\* Two save_autosave_snapshot calls for one room returned one after the other, the
\* second with other data at a later second, and the room's only autosave row has
\* the id both returned.
C4_Witness ==
    /\ before.op = "save_autosave_snapshot" /\ before.ok
    /\ last.op = "save_autosave_snapshot" /\ last.ok
    /\ last.room = before.room
    /\ last.id = before.id
    /\ \E s \in snapshots :
          /\ autosave_rows(snapshots, last.room) = {s}
          /\ s.id = last.id /\ s.data = "y" /\ s.created_at = 1
    /\ \E s \in plain_rows(snapshots, last.room) : s.id < last.id

\* The limit of a room: what get_room_settings returns for it.
max_snapshots_of(room_id) ==
    get_room_settings_internal(room_settings, room_id, FALSE).max_snapshots

\* C1: from an empty snapshot store, with the settings fixed and positive, after
\* any sequence of save_snapshot calls that do not pass the autosave sentinel,
\* every room has at most max_snapshots rows that are not autosave rows.
C1_RetentionLimit ==
    \A r \in Rooms : Cardinality(plain_rows(snapshots, r)) <= max_snapshots_of(r)

\* A room with a limit of 2 that was saved to three times and holds two rows.
C1_Witness ==
    \E r \in Rooms :
        /\ max_snapshots_of(r) = 2
        /\ Len(saved[r]) = 3
        /\ Cardinality(plain_rows(snapshots, r)) = 2

\* The m most recent saves of a room, newest first, as a listing shows them.
RECURSIVE newest_first(_, _)
newest_first(saves, m) ==
    IF m = 0 \/ saves = <<>>
    THEN <<>>
    ELSE <<saves[Len(saves)]>> \o newest_first(SubSeq(saves, 1, Len(saves) - 1), m - 1)

listed(rows) == [i \in 1..Len(rows) |-> [id |-> rows[i].id,
                                          created_at |-> rows[i].created_at]]

strictly_increasing(saves) ==
    \A i \in 1..Len(saves) - 1 : saves[i].created_at < saves[i + 1].created_at

\* C7 as stated: in a room with limit m and n > m saves s1..sn, list_snapshots
\* returns exactly the m most recent, newest first, each with its data blanked,
\* whatever the (non-decreasing, possibly equal) timestamps.
C7_ListNewestFirst_AnyTimestamps ==
    (last.op = "list_snapshots" /\ Len(saved[last.room]) > max_snapshots_of(last.room))
        => /\ last.ok
           /\ listed(last.out) = newest_first(saved[last.room],
                                              max_snapshots_of(last.room))
           /\ \A i \in 1..Len(last.out) :
                  last.out[i].data = "" /\ last.out[i].room_id = last.room

\* C7 amended: the same, when the saves' timestamps are strictly increasing.
C7_ListNewestFirst ==
    (/\ last.op = "list_snapshots"
     /\ Len(saved[last.room]) > max_snapshots_of(last.room)
     /\ strictly_increasing(saved[last.room]))
        => /\ last.ok
           /\ listed(last.out) = newest_first(saved[last.room],
                                              max_snapshots_of(last.room))
           /\ \A i \in 1..Len(last.out) :
                  last.out[i].data = "" /\ last.out[i].room_id = last.room

\* The scenario of the claim: limit 2, three saves at three different seconds, and
\* the listing returned the last two.
C7_Witness ==
    /\ last.op = "list_snapshots"
    /\ max_snapshots_of(last.room) = 2
    /\ Len(saved[last.room]) = 3
    /\ strictly_increasing(saved[last.room])
    /\ Len(last.out) = 2
    /\ last.out[1].id = saved[last.room][3].id
    /\ last.out[2].id = saved[last.room][2].id

\* C8: get_room_settings(R) for a room without a settings row returns
\* {max_snapshots: 10, auto_save_interval: 60} and leaves room_settings as it is;
\* the read inside save_snapshot does the same (it persists nothing and applies the
\* limit 10), so a row for R appears only by update_room_settings(R, ...).
C8_DefaultNotPersisted ==
    [][\A r \in Rooms :
         /\ (get_room_settings(r, "none") /\ settings_rows(room_settings, r) = {})
                => /\ last'.ok
                   /\ last'.out = <<[room_id |-> r, max_snapshots |-> 10,
                                     auto_save_interval |-> 60]>>
                   /\ room_settings' = room_settings
         /\ ran_save_snapshot(r)
                => /\ room_settings' = room_settings
                   /\ (settings_rows(room_settings, r) = {}
                       /\ Cardinality(room_rows(snapshots, r)) < 10)
                          => snapshots \subseteq snapshots'
         /\ (settings_rows(room_settings, r) = {} /\ settings_rows(room_settings', r) # {})
                => last'.op = "update_room_settings" /\ last'.room = r]_vars

\* get_room_settings returned the default for a room that holds two snapshots and
\* still has no settings row, while the other room has one.
C8_Witness ==
    /\ last.op = "get_room_settings"
    /\ settings_rows(room_settings, last.room) = {}
    /\ last.out = <<[room_id |-> last.room, max_snapshots |-> 10,
                     auto_save_interval |-> 60]>>
    /\ Cardinality(room_rows(snapshots, last.room)) = 2
    /\ room_settings # {}

\* C9: after update_room_settings(R, m, a), get_room_settings(R) returns
\* {room_id: R, max_snapshots: m, auto_save_interval: a} whether or not R had a row;
\* room_settings holds exactly one row for R, the rows of the other rooms are
\* unchanged, and the same call again changes nothing.
C9_UpsertThenGet ==
    [][\A r \in Rooms, v \in AnySettingInputs :
         update_room_settings(r, v[1], v[2], "none")
            => LET row == [room_id |-> r, max_snapshots |-> v[1],
                           auto_save_interval |-> v[2]]
               IN  /\ last'.ok
                   /\ get_room_settings_internal(room_settings', r, FALSE) = row
                   /\ settings_rows(room_settings', r) = {row}
                   /\ \A o \in Rooms \ {r} :
                          settings_rows(room_settings', o) = settings_rows(room_settings, o)
                   /\ row \in room_settings => room_settings' = room_settings]_vars

\* Two update_room_settings calls for one room in a row: the second overwrote the
\* row of the first, and the other room's row is there.
C9_Witness ==
    /\ before.op = "update_room_settings" /\ last.op = "update_room_settings"
    /\ before.room = last.room
    /\ settings_rows(room_settings, last.room) =
           {[room_id |-> last.room, max_snapshots |-> 2, auto_save_interval |-> 60]}
    /\ \E o \in Rooms \ {last.room} :
           settings_rows(room_settings, o) =
               {[room_id |-> o, max_snapshots |-> 1, auto_save_interval |-> 30]}

\* C5: a save_snapshot call that returns an error leaves the snapshots relation
\* exactly as it was before the call: no row has been evicted.
C5_SaveSnapshotAtomicOnFailure ==
    [][\A r \in Rooms :
         (ran_save_snapshot(r) /\ ~last'.ok) => snapshots' = snapshots]_vars

\* C10: save_drawing(name, data) returns an id that no drawing had, and changes no
\* other drawing; load_drawing of that id right afterwards returns the drawing
\* with that id, the same name and data, and created_at = updated_at.  Stated on
\* the save (the row it leaves) and on the load (it returns the row as stored).
C10_SaveThenLoad ==
    [][/\ \A v \in DrawingInputs :
            save_drawing(v[1], v[2], "none")
               => /\ last'.ok
                  /\ last'.id \notin {x.id : x \in drawings}
                  /\ \E row \in drawings' :
                        /\ select_drawing(drawings', last'.id) = {row}
                        /\ row.id = last'.id /\ row.name = v[1] /\ row.data = v[2]
                        /\ row.created_at = row.updated_at
                        /\ drawings' \ {row} = drawings
       /\ \A i \in Ids :
            (load_drawing(i, "none") /\ last.op = "save_drawing" /\ last.ok /\ last.id = i)
               => /\ last'.ok
                  /\ \E row \in drawings : row.id = i /\ last'.out = <<row>>
                  /\ drawings' = drawings]_vars

\* A load right after the save of a second drawing returned it, as saved.
C10_Witness ==
    /\ before.op = "save_drawing" /\ before.ok
    /\ last.op = "load_drawing" /\ last.ok /\ last.id = before.id
    /\ Len(last.out) = 1
    /\ last.out[1].name = "B" /\ last.out[1].data = "y"
    /\ last.out[1].created_at = 1 /\ last.out[1].updated_at = 1
    /\ \E o \in drawings : o.id # last.id /\ o.updated_at # o.created_at

\* A thread is inside its critical section from DB.lock() to its return.
in_critical_section(t) == threads[t].pc \notin {"idle", "lock"}

\* C6: with concurrent callers at most one command is inside its critical section
\* at any time, and while one is, no other thread executes a statement or takes the
\* lock (another thread can only start a call and wait), so a command's statements
\* run back to back; in save_snapshot the count that was checked is still the
\* room's row count when the eviction and the insert apply.
C6_OneCommandAtATime ==
    /\ [](/\ Cardinality({t \in Threads : in_critical_section(t)}) <= 1
          /\ \A t \in Threads :
                /\ threads[t].pc = "evict"
                      => threads[t].count = count_snapshots(snapshots, threads[t].room)
                /\ (threads[t].pc = "insert" /\ threads[t].op = "save_snapshot")
                      => count_snapshots(snapshots, threads[t].room) =
                             IF at_limit(threads[t].count, threads[t].max_snapshots)
                             THEN threads[t].count - 1
                             ELSE threads[t].count)
    /\ [][\A t \in Threads : \A u \in Threads \ {t} :
            (in_critical_section(t) /\ threads'[u] # threads[u])
               => /\ threads[u].pc = "idle"
                  /\ threads'[u].pc = "lock"
                  /\ <<drawings, snapshots, room_settings>>' =
                         <<drawings, snapshots, room_settings>>]_vars

\* One thread is between the count and the insert of a save_snapshot that evicted,
\* while the other waits for the lock with a command for the same room.
C6_Witness ==
    \E t \in Threads : \E u \in Threads \ {t} :
        /\ threads[t].op = "save_snapshot" /\ threads[t].pc = "insert"
        /\ threads[t].count = 1 /\ threads[t].max_snapshots = 1
        /\ threads[u].pc = "lock"
        /\ threads[u].room = threads[t].room

strictly_later(old, new) == new.updated_at > new.created_at

refreshed(old, new) ==
    /\ new.updated_at = clock
    /\ new.updated_at >= new.created_at
    /\ clock > old.created_at => new.updated_at > new.created_at

\* What update_drawing(id, name, data) leaves of an existing drawing, and what the
\* load_drawing(id) right after it returns: the new name and data, the created_at
\* the row had, no other row changed; of updated_at it says that it is strictly
\* later than created_at (always_later), or that it is the second of the update.
updated_as(always_later) ==
    /\ \A i \in Ids, v \in DrawingInputs :
          (update_drawing(i, v[1], v[2], "none") /\ select_drawing(drawings, i) # {})
             => /\ last'.ok
                /\ \E old \in select_drawing(drawings, i) :
                   \E new \in drawings' :
                      /\ select_drawing(drawings', i) = {new}
                      /\ new.name = v[1] /\ new.data = v[2]
                      /\ new.created_at = old.created_at
                      /\ IF always_later
                         THEN strictly_later(old, new)
                         ELSE refreshed(old, new)
                      /\ drawings' \ {new} = drawings \ {old}
    /\ \A i \in Ids :
          (load_drawing(i, "none") /\ last.op = "update_drawing" /\ last.ok
              /\ last.id = i /\ select_drawing(drawings, i) # {})
             => /\ last'.ok
                /\ \E row \in drawings : row.id = i /\ last'.out = <<row>>
                /\ drawings' = drawings

\* C11 as stated: after update_drawing(id, name', data') of an existing drawing,
\* load_drawing(id) returns name' and data', the created_at it had, and an
\* updated_at strictly greater than created_at, for every clock reading.
C11_UpdateThenLoad_AnyClock == [][updated_as(TRUE)]_vars

\* C11 amended: the same, with updated_at the second of the update: at least
\* created_at, and strictly greater when the update comes at a later second than
\* the save.
C11_UpdateThenLoad == [][updated_as(FALSE)]_vars

\* A load right after an update at a later second returned the new name and data,
\* the old created_at and a greater updated_at, while the other drawing is as saved.
C11_Witness ==
    /\ before.op = "update_drawing" /\ before.ok
    /\ last.op = "load_drawing" /\ last.ok /\ last.id = before.id
    /\ Len(last.out) = 1
    /\ last.out[1].name = "B" /\ last.out[1].data = "y"
    /\ last.out[1].created_at = 0 /\ last.out[1].updated_at = 1
    /\ \E o \in drawings : o.id # last.id /\ o.name = "A" /\ o.updated_at = o.created_at

\* A step in which the command op, given id, returned.
ran(op, id) == clock' = clock /\ last'.op = op /\ last'.id = id

relations == <<drawings, snapshots, room_settings>>

\* C12: for an id that matches no row, load_drawing and load_snapshot return an
\* error and change nothing; update_drawing, delete_drawing, delete_snapshot and
\* update_snapshot_metadata return success and leave drawings, snapshots and
\* room_settings exactly as they were.
C12_MissingId ==
    [][\A i \in Ids :
         /\ select_drawing(drawings, i) = {}
               => /\ ran("load_drawing", i)
                        => ~last'.ok /\ last'.out = <<>> /\ relations' = relations
                  /\ (ran("update_drawing", i) \/ ran("delete_drawing", i))
                        => last'.ok /\ relations' = relations
         /\ {s \in snapshots : s.id = i} = {}
               => /\ ran("load_snapshot", i)
                        => ~last'.ok /\ last'.out = <<>> /\ relations' = relations
                  /\ (ran("delete_snapshot", i) \/ ran("update_snapshot_metadata", i))
                        => last'.ok /\ relations' = relations]_vars

\* update_drawing returned success for an id that only a snapshot has; the three
\* relations hold rows.
C12_Witness ==
    /\ last.op = "update_drawing" /\ last.ok
    /\ select_drawing(drawings, last.id) = {}
    /\ \E s \in snapshots : s.id = last.id
    /\ drawings # {} /\ room_settings # {}

\* C13: a store statement that fails inside a command makes the command return an
\* error: get_room_settings whose read of an existing row fails returns an error,
\* not a settings value; save_snapshot whose settings read fails returns an error
\* and does not go on with another limit; and so does every other failing
\* statement of save_snapshot, save_autosave_snapshot and update_room_settings.
C13_StoreFailureIsReturned ==
    [][\A r \in Rooms :
         /\ (get_room_settings(r, "read") /\ settings_rows(room_settings, r) # {})
                => ~last'.ok
         /\ (/\ save_snapshot(r, None, None, None, None, "x", "settings")
             /\ settings_rows(room_settings, r) # {}
             /\ at_limit(count_snapshots(snapshots, r), max_snapshots_of(r)))
                => ~last'.ok /\ snapshots' = snapshots
         /\ \A f \in SaveSnapshotFaults \ {"none", "settings"} :
                save_snapshot(r, None, None, None, None, "x", f) => ~last'.ok
         /\ \A f \in AutosaveFaults \ {"none"} :
                save_autosave_snapshot(r, None, None, None, "x", f) => ~last'.ok
         /\ \A v \in SettingInputs :
                update_room_settings(r, v[1], v[2], "upsert") => ~last'.ok]_vars

\* What save_autosave_snapshot(R, name?, description?, thumbnail?, data) does, with
\* default_description the text an absent description is replaced by: it
\* overwrites an autosave row of R, keeping its id, room_id and created_by, or
\* inserts a row with a fresh id and the sentinel; the row gets the data, the
\* second of the call, and the arguments or their defaults; the id returned is the
\* row's; no other row changes.
autosaved_as(default_description) ==
    \A r \in Rooms, m \in Metas, d \in Datas :
        save_autosave_snapshot(r, m[1], m[2], m[3], d, "none")
           => LET row(id) ==
                      [id |-> id, room_id |-> r,
                       name |-> IF m[1] = None THEN "Latest autosave snapshot" ELSE m[1],
                       description |-> IF m[2] = None THEN default_description ELSE m[2],
                       thumbnail |-> IF m[3] = None THEN "" ELSE m[3],
                       created_by |-> "__autosave__",
                       created_at |-> clock, data |-> d]
              IN  /\ last'.ok
                  /\ row(last'.id) \in autosave_rows(snapshots', r)
                  /\ IF autosave_rows(snapshots, r) # {}
                     THEN \E old \in autosave_rows(snapshots, r) :
                              /\ old.id = last'.id
                              /\ snapshots' \ {row(last'.id)} = snapshots \ {old}
                     ELSE /\ last'.id \notin {s.id : s \in snapshots}
                          /\ snapshots' \ {row(last'.id)} = snapshots

\* C14 as stated: an absent description becomes "Automatically saved".
C14_AutosaveUpsert_AsDocumented == [][autosaved_as("Automatically saved")]_vars

\* C14 amended: an absent description becomes "Automatically saved by Excalidraw".
C14_AutosaveUpsert == [][autosaved_as("Automatically saved by Excalidraw")]_vars

\* A room's autosave row was overwritten, a second after a later row of the room
\* was saved, by a call with the optional arguments absent: it has its old id, the
\* defaults, the new data and the second of the call.
C14_Witness ==
    /\ last.op = "save_autosave_snapshot" /\ last.ok
    /\ \E s \in snapshots :
          /\ autosave_rows(snapshots, last.room) = {s}
          /\ s.id = last.id
          /\ \E o \in plain_rows(snapshots, last.room) : o.id > s.id /\ o.created_at = 0
          /\ s.name = "Latest autosave snapshot" /\ s.thumbnail = ""
          /\ s.description = "Automatically saved by Excalidraw"
          /\ s.data = "y" /\ s.created_at = 1

\* The thirteen operations of the interface.
interface ==
    {"save_drawing", "update_drawing", "load_drawing", "list_drawings",
     "delete_drawing", "save_snapshot", "list_snapshots", "load_snapshot",
     "delete_snapshot", "update_snapshot_metadata", "save_autosave_snapshot",
     "get_room_settings", "update_room_settings"}

\* C15: the operations a caller can invoke through the registered handler are
\* exactly the thirteen of the interface: a call by one of these names runs the
\* operation, and a call by any other name is rejected.
C15_HandlerExposesInterface ==
    last.op # "" => (last.out = not_found <=> last.op \notin interface)

\* C16: update_snapshot_metadata(id, name, description) on an existing snapshot
\* changes only that row's name and description: its id, room_id, data, thumbnail,
\* created_by and created_at stay, every other snapshot row, every drawing and
\* every settings row stays, and so do each room's snapshot count and the rows its
\* next eviction may remove.
C16_MetadataOnly ==
    [][\A i \in Ids :
         (/\ update_snapshot_metadata(i, "n1", "d1", "none")
          /\ {s \in snapshots : s.id = i} # {})
            => /\ last'.ok
               /\ \E old \in snapshots :
                     /\ old.id = i
                     /\ snapshots' = (snapshots \ {old}) \cup
                            {[id |-> old.id, room_id |-> old.room_id, name |-> "n1",
                              description |-> "d1", thumbnail |-> old.thumbnail,
                              created_by |-> old.created_by,
                              created_at |-> old.created_at, data |-> old.data]}
               /\ drawings' = drawings /\ room_settings' = room_settings
               /\ \A r \in Rooms :
                     /\ count_snapshots(snapshots', r) = count_snapshots(snapshots, r)
                     /\ oldest_ids(snapshots', r) = oldest_ids(snapshots, r)]_vars

\* The metadata of the newer of a room's two snapshots was updated: it has the new
\* name and description and its thumbnail and created_at, the older one is as saved.
C16_Witness ==
    /\ last.op = "update_snapshot_metadata" /\ last.ok
    /\ \E s \in snapshots :
          /\ s.id = last.id
          /\ s.name = "n1" /\ s.description = "d1" /\ s.thumbnail = "t0"
          /\ s.created_at = 1
          /\ \E o \in room_rows(snapshots, s.room_id) :
                o.name = "n0" /\ o.description = None /\ o.created_at = 0

\* C17: with the settings fixed and positive, after any interleaving of
\* save_snapshot, save_autosave_snapshot and delete_snapshot calls from an empty
\* store, every room has at most max_snapshots rows that are not autosave rows.
C17_RetentionLimitWithAutosave ==
    \A r \in Rooms : Cardinality(plain_rows(snapshots, r)) <= max_snapshots_of(r)

\* C19: with the settings fixed and positive, after any interleaving of
\* save_snapshot and save_autosave_snapshot calls from an empty store, every room
\* has at most max_snapshots + 1 snapshot rows, its autosave row included.
C19_StorageBound ==
    \A r \in Rooms : Cardinality(room_rows(snapshots, r)) <= max_snapshots_of(r) + 1

\* C18: when update_room_settings has lowered a room's max_snapshots to a positive
\* m below the number of snapshots the room holds, the room has at most m rows
\* that are not autosave rows once the next save_snapshot for it has returned.
C18_LoweredLimitReestablished ==
    [][\A r \in Rooms :
         (/\ ran_save_snapshot(r)
          /\ last'.ok
          /\ max_snapshots_of(r) > 0
          /\ count_snapshots(snapshots, r) > max_snapshots_of(r))
            => Cardinality(plain_rows(snapshots', r)) <= max_snapshots_of(r)]_vars

\* C20: under fair scheduling every call returns a value or an error, and the
\* connection lock is free again after every return and after a panic of an
\* operation that holds it: a caller that stops waiting for the lock has got the
\* connection, it is not turned away, so that later operations can succeed.
C20_CallsReturnAndLockStaysUsable ==
    /\ \A t \in Threads : (threads[t].pc # "idle") ~> (threads[t].pc = "idle")
    /\ [][\A t \in Threads :
            (threads[t].pc = "lock" /\ threads'[t].pc # "lock") => lock' = t]_vars

====
